---- MODULE Spec2Model ----
(***************************************************************************)
(* Model of the screen-share pipeline of                                   *)
(* EditableImagesPlayground/Scripts/ScreenshareV3.py: the controlling      *)
(* thread (main / __main__), the capture thread (capture_frames), the send *)
(* thread (send_frames), the bounded frame queue and the stop event.       *)
(***************************************************************************)
EXTENDS Integers, Sequences, FiniteSets, TLC

VARIABLES
    mainpc,         \* position of the controlling thread in main()
    ppc,            \* position of the capture thread in capture_frames()
    cpc,            \* position of the send thread in send_frames()
    monitor_num,    \* the monitor index the user chose
    created,        \* frame_queue and stop_event exist (main, lines 208-209)
    frame_queue,    \* queue.Queue(maxsize=10): the frames pending, oldest first
    stop_event,     \* threading.Event: the cancellation flag
    built,          \* number of frames capture_frames has built so far
    frame_payload,  \* capture_frames' local: the frame being enqueued (0: none)
    c_payload,      \* send_frames' local: the frame being sent (0: none)
    got,            \* history: the frames send_frames dequeued, in order
    puts,           \* history: the frames passed to PUT, in order
    dropped,        \* history: the frames discarded on queue.Full
    posts,          \* history: number of bootstrap POST requests issued
    post_error,     \* history: the exception the bootstrap POST raised
    send_error,     \* the exception send_frames caught (NoError: none)
    reported,       \* the exception __main__ caught and printed (NoError: none)
    exit_status,    \* exit status: "0", "1" or "KeyboardInterrupt"
    interrupts,     \* number of interrupt requests (Ctrl+C) delivered so far
    late_interrupt, \* history: an interrupt came after both threads started
    screen_key,     \* input: the ScreenKey line, a sequence of characters
    max_json_input, \* input: the max JSON bytes line, a sequence of characters
    roblox_username, \* input: the username line, a sequence of characters
    MAX_PIXELS,     \* main's pixel budget (0 until computed)
    main_index,     \* history: was monitor_num a display of sct_init (main)
    capture_index,  \* history: was monitor_num a display of sct (thread)
    capture_error,  \* the exception that ended the capture thread
    enq_after_stop, \* history: frames enqueued while the flag was set
    call            \* the last call of a pure function and its result

vars == <<mainpc, ppc, cpc, monitor_num, created, frame_queue, stop_event,
          built, frame_payload, c_payload, got, puts, dropped, posts,
          post_error, send_error, reported, exit_status, interrupts,
          late_interrupt, screen_key, max_json_input, roblox_username,
          MAX_PIXELS, main_index, capture_index, capture_error,
          enq_after_stop, call>>

----------------------------------------------------------------------------
(* Program constants and bounds *)

\* queue.Queue(maxsize=10)
MaxSize == 10

\* bound: frames the capture thread builds in one run
MaxFrames == 12

\* bound: interrupt requests delivered in one run
MaxInterrupts == 2

\* bound: largest number of entries of sct.monitors
MaxMonitors == 3

\* the responses a request can meet: a transport-level failure, or a status
Transport == {"Timeout", "ConnectionError"}
Statuses == {200, 304, 404, 500}
Responses ==
    {<<t, 0>> : t \in Transport} \cup {<<"Status", s>> : s \in Statuses}

\* the statuses tried on send_request alone: each class and its edges
UnitStatuses == Statuses \cup {100, 199, 204, 299, 300, 399, 400, 599}
UnitResponses ==
    {<<t, 0>> : t \in Transport} \cup {<<"Status", s>> : s \in UnitStatuses}

NoError == <<"None", 0>>
NotExited == "running"

\* bound: largest width and height of a raster given to the scaling step
MaxDim == 8

\* bound: largest pixel budget given to the scaling step
MaxBudget == 12

\* bound: largest number of pixels of a raster given to the encoder
MaxRasterPixels == 2

\* the channel values tried: pixels are <<R, G, B, A>>
ColourValues == {0, 200}
AlphaValues == {0, 1, 255}
Pixels ==
    {<<r, g, b, a>> : r \in ColourValues, g \in ColourValues,
                      b \in ColourValues, a \in AlphaValues}

\* the lines the user can type, as sequences of characters
KeyInputs == {<<>>, <<" ">>, <<"k">>}
BudgetInputs == {<<>>, <<"x">>, <<"-", "1">>, <<"0">>, <<"1", "2">>}
UserInputs == {<<>>, <<" ">>, <<"u">>}

----------------------------------------------------------------------------
(* Pure helpers *)

\* requests' Response.raise_for_status(): HTTPError for 400 <= status < 600
raise_for_status(status) ==
    IF status >= 400 /\ status < 600 THEN <<"HTTPError", status>> ELSE NoError

\* the method arguments tried, and str.upper() on them
Methods == {"POST", "PUT", "post", "Put", "GET", "DELETE", "PATCH", ""}
upper(method) ==
    CASE method \in {"POST", "post"} -> "POST"
      [] method \in {"PUT", "Put"} -> "PUT"
      [] OTHER -> method

\* mutant of session_call: no else branch, whatever is not PUT is POSTed
session_call_PostElse(method) ==
    IF upper(method) = "PUT" THEN "put" ELSE "post"

\* send_request, lines 56-62: the call it makes on the shared session for
\* this method ("none": no request is issued)
session_call(method) ==
    CASE upper(method) = "POST" -> "post"
      [] upper(method) = "PUT" -> "put"
      [] OTHER -> "none"

\* send_request(url, payload, method, headers): the exception it raises
\* (NoError when it returns normally) for a request that met response r
send_request(method, r) ==
    IF session_call(method) = "none" THEN <<"ValueError", 0>>
    ELSE IF r[1] \in Transport THEN r
    ELSE raise_for_status(r[2])

\* send_request of Screenshare.py, lines 61-79: a RequestException is
\* re-raised as Exception, a status outside [200, 300) raises Exception
send_request_v1(method, r) ==
    IF upper(method) \notin {"POST", "PUT"} THEN <<"ValueError", 0>>
    ELSE IF r[1] \in Transport THEN <<"Exception", 0>>
    ELSE IF ~(200 <= r[2] /\ r[2] < 300) THEN <<"Exception", r[2]>>
    ELSE NoError

Range(s) == {s[i] : i \in 1..Len(s)}

\* str.strip(): leading and trailing whitespace removed
RECURSIVE LStrip(_)
LStrip(s) == IF s # <<>> /\ Head(s) = " " THEN LStrip(Tail(s)) ELSE s
RECURSIVE RStrip(_)
RStrip(s) ==
    IF s # <<>> /\ s[Len(s)] = " " THEN RStrip(SubSeq(s, 1, Len(s) - 1))
    ELSE s
Strip(s) == RStrip(LStrip(s))

\* str.isdigit(): not empty and every character a digit
Digits == <<"0", "1", "2", "3", "4", "5", "6", "7", "8", "9">>
isdigit(s) == s # <<>> /\ \A i \in 1..Len(s) : s[i] \in Range(Digits)

\* int(s) of a string of digits
DigitValue(c) == (CHOOSE i \in 1..Len(Digits) : Digits[i] = c) - 1
RECURSIVE int(_)
int(s) ==
    IF s = <<>> THEN 0
    ELSE 10 * int(SubSeq(s, 1, Len(s) - 1)) + DigitValue(s[Len(s)])

\* lines 155-157: MAX_RAW_BYTES = int(MAX_JSON_BYTES * 0.75), then // 4
MaxPixelsOf(max_json_bytes) == ((3 * max_json_bytes) \div 4) \div 4

Max(a, b) == IF a >= b THEN a ELSE b

\* int(d * math.sqrt(max_pixels / total_pixels)) for max_pixels < total_pixels:
\* the largest k with k <= d * sqrt(max_pixels / total_pixels)
\* (on the ranges used here the floating-point result is this integer)
scaled(d, max_pixels, total_pixels) ==
    CHOOSE k \in 0..d :
        /\ k * k * total_pixels <= d * d * max_pixels
        /\ (k + 1) * (k + 1) * total_pixels > d * d * max_pixels

\* lines 93-99 (and 191-196): the size of the image after the scaling step
resize_dims(width, height, max_pixels) ==
    IF width * height > max_pixels
      THEN <<Max(1, scaled(width, max_pixels, width * height)),
             Max(1, scaled(height, max_pixels, width * height))>>
      ELSE <<width, height>>

\* mutant of normalize_alpha: the colour is cleared, the alpha left at 0
normalize_alpha_KeepsAlpha(arr) ==
    [i \in 1..Len(arr) |->
        IF arr[i][4] = 0 THEN <<0, 0, 0, 0>> ELSE arr[i]]

\* lines 28-32: arr[transparent, :3] = 0; arr[transparent, 3] = 255
normalize_alpha(arr) ==
    [i \in 1..Len(arr) |->
        IF arr[i][4] = 0 THEN <<0, 0, 0, 255>> ELSE arr[i]]

\* line 35: arr.tobytes(): the channels of the pixels, row by row
RECURSIVE tobytes(_)
tobytes(arr) == IF arr = <<>> THEN <<>> ELSE Head(arr) \o tobytes(Tail(arr))

\* was index i one of the displays 1..N of a monitors list of n entries
\* (entry 0 is the union of all displays, so N = n - 1)
Display(i, n) == IF i >= 1 /\ i <= n - 1 THEN "display" ELSE "no display"

\* a thread object whose target has ended (returned or raised)
Finished(pc) == pc \in {"done", "died"}

\* the daemon threads at interpreter shutdown: a live one is killed
AtShutdown(pc) == IF pc \in {"idle", "done", "died"} THEN pc ELSE "killed"

----------------------------------------------------------------------------
(* Initial state: the user's lines are given, main() is about to read them;  *)
(* nothing is created, no thread is started.                                *)

Init ==
    /\ mainpc = "input"
    /\ screen_key \in KeyInputs
    /\ max_json_input \in BudgetInputs
    /\ roblox_username \in UserInputs
    /\ MAX_PIXELS = 0
    /\ main_index = "unchecked"
    /\ capture_index = "unchecked"
    /\ capture_error = NoError
    /\ enq_after_stop = 0
    /\ call = [op |-> "none"]
    /\ ppc = "idle"
    /\ cpc = "idle"
    /\ monitor_num \in 0..(MaxMonitors + 1)
    /\ created = FALSE
    /\ frame_queue = <<>>
    /\ stop_event = FALSE
    /\ built = 0
    /\ frame_payload = 0
    /\ c_payload = 0
    /\ got = <<>>
    /\ puts = <<>>
    /\ dropped = {}
    /\ posts = 0
    /\ post_error = NoError
    /\ send_error = NoError
    /\ reported = NoError
    /\ exit_status = NotExited
    /\ interrupts = 0
    /\ late_interrupt = FALSE

----------------------------------------------------------------------------
(* The controlling thread: main() under the handlers of __main__ *)

\* the process ends with status st, __main__ having printed exception err
ProcessExit(st, err) ==
    /\ mainpc' = "exited"
    /\ exit_status' = st
    /\ reported' = err
    /\ ppc' = AtShutdown(ppc)
    /\ cpc' = AtShutdown(cpc)

\* lines 143-166: the inputs are read and checked; sys.exit(1) on an empty
\* ScreenKey, a max JSON bytes line that is not all digits, an empty username
MainInput ==
    /\ mainpc = "input"
    /\ MAX_PIXELS' =
         IF Strip(screen_key) # <<>> /\ isdigit(Strip(max_json_input))
           THEN MaxPixelsOf(int(Strip(max_json_input)))
           ELSE MAX_PIXELS
    /\ IF \/ Strip(screen_key) = <<>>
          \/ ~isdigit(Strip(max_json_input))
          \/ Strip(roblox_username) = <<>>
         THEN ProcessExit("1", NoError)
         ELSE /\ mainpc' = "bootstrap"
              /\ UNCHANGED <<ppc, cpc, reported, exit_status>>
    /\ UNCHANGED <<monitor_num, created, frame_queue, stop_event, built,
                   frame_payload, c_payload, got, puts, dropped, posts,
                   post_error, send_error, interrupts, late_interrupt,
                   screen_key, max_json_input, roblox_username, main_index,
                   capture_index, capture_error, enq_after_stop, call>>

\* mutant of MainBootstrap: the threads are set up before the POST is sent
MainBootstrap_SkipsPost ==
    /\ mainpc = "bootstrap"
    /\ \E n \in 1..MaxMonitors :
         /\ main_index' = Display(monitor_num, n)
         /\ IF monitor_num < 1 \/ monitor_num > n
              THEN ProcessExit("1", NoError)
              ELSE IF monitor_num = n
                THEN ProcessExit("1", <<"IndexError", 0>>)
                ELSE /\ mainpc' = "create"
                     /\ UNCHANGED <<ppc, cpc, reported, exit_status>>
    /\ UNCHANGED <<monitor_num, created, frame_queue, stop_event, built,
                   frame_payload, c_payload, got, puts, dropped, posts,
                   post_error, send_error, interrupts, late_interrupt,
                   screen_key, max_json_input, roblox_username, MAX_PIXELS,
                   capture_index, capture_error, enq_after_stop, call>>

\* lines 176-199: the initial screenshot; n is len(sct_init.monitors)
MainBootstrap ==
    /\ mainpc = "bootstrap"
    /\ \E n \in 1..MaxMonitors :
         /\ main_index' = Display(monitor_num, n)
         /\ IF monitor_num < 1 \/ monitor_num > n
              THEN ProcessExit("1", NoError)
              ELSE IF monitor_num = n
                THEN ProcessExit("1", <<"IndexError", 0>>)
                ELSE /\ mainpc' = "post"
                     /\ UNCHANGED <<ppc, cpc, reported, exit_status>>
    /\ UNCHANGED <<monitor_num, created, frame_queue, stop_event, built,
                   frame_payload, c_payload, got, puts, dropped, posts,
                   post_error, send_error, interrupts, late_interrupt,
                   screen_key, max_json_input, roblox_username, MAX_PIXELS,
                   capture_index, capture_error, enq_after_stop, call>>

\* mutant of MainPost: the POST is wrapped in a handler that prints the
\* exception and lets startup go on
MainPost_GoesOn ==
    /\ mainpc = "post"
    /\ posts' = posts + 1
    /\ \E r \in Responses : post_error' = send_request("POST", r)
    /\ mainpc' = "create"
    /\ UNCHANGED <<ppc, cpc, reported, exit_status>>
    /\ UNCHANGED <<monitor_num, created, frame_queue, stop_event, built,
                   frame_payload, c_payload, got, puts, dropped, send_error,
                   interrupts, late_interrupt, screen_key, max_json_input,
                   roblox_username, MAX_PIXELS, main_index, capture_index,
                   capture_error, enq_after_stop, call>>

\* lines 201-205: the bootstrap POST; an exception reaches __main__'s handler
MainPost ==
    /\ mainpc = "post"
    /\ posts' = posts + 1
    /\ \E r \in Responses :
         LET e == send_request("POST", r) IN
         /\ post_error' = e
         /\ IF e = NoError
              THEN /\ mainpc' = "create"
                   /\ UNCHANGED <<ppc, cpc, reported, exit_status>>
              ELSE ProcessExit("1", e)
    /\ UNCHANGED <<monitor_num, created, frame_queue, stop_event, built,
                   frame_payload, c_payload, got, puts, dropped, send_error,
                   interrupts, late_interrupt, screen_key, max_json_input,
                   roblox_username, MAX_PIXELS, main_index, capture_index,
                   capture_error, enq_after_stop, call>>

\* lines 207-220: the queue, the event and the two thread objects
MainCreate ==
    /\ mainpc = "create"
    /\ created' = TRUE
    /\ frame_queue' = <<>>
    /\ stop_event' = FALSE
    /\ mainpc' = "start_capture"
    /\ UNCHANGED <<ppc, cpc, monitor_num, built, frame_payload, c_payload,
                   got, puts, dropped, posts, post_error, send_error,
                   reported, exit_status, interrupts, late_interrupt,
                   screen_key, max_json_input, roblox_username, MAX_PIXELS,
                   main_index, capture_index, capture_error, enq_after_stop,
                   call>>

\* line 223: capture_thread.start()
MainStartCapture ==
    /\ mainpc = "start_capture"
    /\ ppc' = "init"
    /\ mainpc' = "start_send"
    /\ UNCHANGED <<cpc, monitor_num, created, frame_queue, stop_event, built,
                   frame_payload, c_payload, got, puts, dropped, posts,
                   post_error, send_error, reported, exit_status, interrupts,
                   late_interrupt, screen_key, max_json_input,
                   roblox_username, MAX_PIXELS, main_index, capture_index,
                   capture_error, enq_after_stop, call>>

\* line 224: send_thread.start()
MainStartSend ==
    /\ mainpc = "start_send"
    /\ cpc' = "check"
    /\ mainpc' = "announce"
    /\ UNCHANGED <<ppc, monitor_num, created, frame_queue, stop_event, built,
                   frame_payload, c_payload, got, puts, dropped, posts,
                   post_error, send_error, reported, exit_status, interrupts,
                   late_interrupt, screen_key, max_json_input,
                   roblox_username, MAX_PIXELS, main_index, capture_index,
                   capture_error, enq_after_stop, call>>

\* line 226-227: the print, then the try block is entered
MainAnnounce ==
    /\ mainpc = "announce"
    /\ mainpc' = "poll"
    /\ UNCHANGED <<ppc, cpc, monitor_num, created, frame_queue, stop_event,
                   built, frame_payload, c_payload, got, puts, dropped, posts,
                   post_error, send_error, reported, exit_status, interrupts,
                   late_interrupt, screen_key, max_json_input,
                   roblox_username, MAX_PIXELS, main_index, capture_index,
                   capture_error, enq_after_stop, call>>

\* lines 229-230: while not stop_event.is_set(): time.sleep(1)
\* (an iteration that finds the flag unset changes nothing)
MainPoll ==
    /\ mainpc = "poll"
    /\ stop_event
    /\ mainpc' = "join_capture"
    /\ UNCHANGED <<ppc, cpc, monitor_num, created, frame_queue, stop_event,
                   built, frame_payload, c_payload, got, puts, dropped, posts,
                   post_error, send_error, reported, exit_status, interrupts,
                   late_interrupt, screen_key, max_json_input,
                   roblox_username, MAX_PIXELS, main_index, capture_index,
                   capture_error, enq_after_stop, call>>

\* lines 231-233: except KeyboardInterrupt: print, stop_event.set()
MainExcept ==
    /\ mainpc = "except"
    /\ stop_event' = TRUE
    /\ mainpc' = "join_capture"
    /\ UNCHANGED <<ppc, cpc, monitor_num, created, frame_queue, built,
                   frame_payload, c_payload, got, puts, dropped, posts,
                   post_error, send_error, reported, exit_status, interrupts,
                   late_interrupt, screen_key, max_json_input,
                   roblox_username, MAX_PIXELS, main_index, capture_index,
                   capture_error, enq_after_stop, call>>

\* line 236: capture_thread.join()
MainJoinCapture ==
    /\ mainpc = "join_capture"
    /\ Finished(ppc)
    /\ mainpc' = "join_send"
    /\ UNCHANGED <<ppc, cpc, monitor_num, created, frame_queue, stop_event,
                   built, frame_payload, c_payload, got, puts, dropped, posts,
                   post_error, send_error, reported, exit_status, interrupts,
                   late_interrupt, screen_key, max_json_input,
                   roblox_username, MAX_PIXELS, main_index, capture_index,
                   capture_error, enq_after_stop, call>>

\* mutant of MainJoinSend: join(timeout=...) returns with the thread alive
MainJoinSend_NoWait ==
    /\ mainpc = "join_send"
    /\ mainpc' = "exit"
    /\ UNCHANGED <<ppc, cpc, monitor_num, created, frame_queue, stop_event,
                   built, frame_payload, c_payload, got, puts, dropped, posts,
                   post_error, send_error, reported, exit_status, interrupts,
                   late_interrupt, screen_key, max_json_input,
                   roblox_username, MAX_PIXELS, main_index, capture_index,
                   capture_error, enq_after_stop, call>>

\* line 237: send_thread.join()
MainJoinSend ==
    /\ mainpc = "join_send"
    /\ Finished(cpc)
    /\ mainpc' = "exit"
    /\ UNCHANGED <<ppc, cpc, monitor_num, created, frame_queue, stop_event,
                   built, frame_payload, c_payload, got, puts, dropped, posts,
                   post_error, send_error, reported, exit_status, interrupts,
                   late_interrupt, screen_key, max_json_input,
                   roblox_username, MAX_PIXELS, main_index, capture_index,
                   capture_error, enq_after_stop, call>>

\* line 238: sys.exit(0); SystemExit passes both handlers of __main__
MainExit ==
    /\ mainpc = "exit"
    /\ ProcessExit("0", NoError)
    /\ UNCHANGED <<monitor_num, created, frame_queue, stop_event, built,
                   frame_payload, c_payload, got, puts, dropped, posts,
                   post_error, send_error, interrupts, late_interrupt,
                   screen_key, max_json_input, roblox_username, MAX_PIXELS,
                   main_index, capture_index, capture_error, enq_after_stop,
                   call>>

\* the positions of main() from which both threads have been started
Started == mainpc \in {"announce", "poll", "except", "join_capture",
                       "join_send", "exit"}

\* Ctrl+C: KeyboardInterrupt is raised in the controlling thread where it
\* stands. Inside the try block (lines 227-230) the handler of line 231 takes
\* it; anywhere else it leaves main(), passes `except Exception` of __main__
\* (lines 243-248) and ends the process, daemon threads included.
Interrupt ==
    /\ exit_status = NotExited
    /\ interrupts < MaxInterrupts
    /\ interrupts' = interrupts + 1
    /\ late_interrupt' = (late_interrupt \/ Started)
    /\ IF mainpc = "poll"
         THEN /\ mainpc' = "except"
              /\ UNCHANGED <<ppc, cpc, reported, exit_status>>
         ELSE ProcessExit("KeyboardInterrupt", NoError)
    /\ UNCHANGED <<monitor_num, created, frame_queue, stop_event, built,
                   frame_payload, c_payload, got, puts, dropped, posts,
                   post_error, send_error, screen_key, max_json_input,
                   roblox_username, MAX_PIXELS, main_index, capture_index,
                   capture_error, enq_after_stop, call>>

Main ==
    \/ MainInput
    \/ MainBootstrap
    \/ MainPost
    \/ MainCreate
    \/ MainStartCapture
    \/ MainStartSend
    \/ MainAnnounce
    \/ MainPoll
    \/ MainExcept
    \/ MainJoinCapture
    \/ MainJoinSend
    \/ MainExit

----------------------------------------------------------------------------
(* The capture thread: capture_frames() *)

\* lines 71-78: mss.mss() and the monitor check; n is len(sct.monitors).
\* An index that passes the check but is no index of the list raises
\* IndexError at line 78, which nothing in the thread catches.
ProducerInit ==
    /\ ppc = "init"
    /\ \E n \in 1..MaxMonitors :
         /\ capture_index' = Display(monitor_num, n)
         /\ IF monitor_num < 1 \/ monitor_num > n
              THEN /\ stop_event' = TRUE
                   /\ ppc' = "done"
                   /\ UNCHANGED capture_error
              ELSE IF monitor_num = n
                THEN /\ ppc' = "died"
                     /\ capture_error' = <<"IndexError", 0>>
                     /\ UNCHANGED stop_event
                ELSE /\ ppc' = "check"
                     /\ UNCHANGED <<stop_event, capture_error>>
    /\ UNCHANGED <<mainpc, cpc, monitor_num, created, frame_queue, built,
                   frame_payload, c_payload, got, puts, dropped, posts,
                   post_error, send_error, reported, exit_status, interrupts,
                   late_interrupt, screen_key, max_json_input,
                   roblox_username, MAX_PIXELS, main_index, enq_after_stop,
                   call>>

\* line 80: while not stop_event.is_set()
ProducerCheck ==
    /\ ppc = "check"
    /\ IF stop_event THEN ppc' = "done"
                     ELSE /\ built < MaxFrames
                          /\ ppc' = "grab"
    /\ UNCHANGED <<mainpc, cpc, monitor_num, created, frame_queue, stop_event,
                   built, frame_payload, c_payload, got, puts, dropped, posts,
                   post_error, send_error, reported, exit_status, interrupts,
                   late_interrupt, screen_key, max_json_input,
                   roblox_username, MAX_PIXELS, main_index, capture_index,
                   capture_error, enq_after_stop, call>>

\* lines 81-103: grab, convert, scale, encode: the next frame is built
ProducerGrab ==
    /\ ppc = "grab"
    /\ built' = built + 1
    /\ frame_payload' = built + 1
    /\ ppc' = "put"
    /\ UNCHANGED <<mainpc, cpc, monitor_num, created, frame_queue, stop_event,
                   c_payload, got, puts, dropped, posts, post_error,
                   send_error, reported, exit_status, interrupts,
                   late_interrupt, screen_key, max_json_input,
                   roblox_username, MAX_PIXELS, main_index, capture_index,
                   capture_error, enq_after_stop, call>>

\* lines 81-103 raising (sct.grab fails): no handler, the thread ends
ProducerGrabError ==
    /\ ppc = "grab"
    /\ ppc' = "died"
    /\ capture_error' = <<"ScreenShotError", 0>>
    /\ UNCHANGED <<mainpc, cpc, monitor_num, created, frame_queue, stop_event,
                   built, frame_payload, c_payload, got, puts, dropped, posts,
                   post_error, send_error, reported, exit_status, interrupts,
                   late_interrupt, screen_key, max_json_input,
                   roblox_username, MAX_PIXELS, main_index, capture_index,
                   enq_after_stop, call>>

\* mutant of ProducerPut: a queue without maxsize, every put finds room
ProducerPut_Unbounded ==
    /\ ppc = "put"
    /\ frame_queue' = Append(frame_queue, frame_payload)
    /\ frame_payload' = 0
    /\ ppc' = "sleep"
    /\ enq_after_stop' = enq_after_stop + (IF stop_event THEN 1 ELSE 0)
    /\ UNCHANGED <<mainpc, cpc, monitor_num, created, stop_event, built,
                   c_payload, got, puts, dropped, posts, post_error,
                   send_error, reported, exit_status, interrupts,
                   late_interrupt, screen_key, max_json_input,
                   roblox_username, MAX_PIXELS, main_index, capture_index,
                   capture_error, call>>

\* lines 106-107: frame_queue.put(frame_payload, timeout=1) finds room
ProducerPut ==
    /\ ppc = "put"
    /\ Len(frame_queue) < MaxSize
    /\ frame_queue' = Append(frame_queue, frame_payload)
    /\ frame_payload' = 0
    /\ ppc' = "sleep"
    /\ enq_after_stop' = enq_after_stop + (IF stop_event THEN 1 ELSE 0)
    /\ UNCHANGED <<mainpc, cpc, monitor_num, created, stop_event, built,
                   c_payload, got, puts, dropped, posts, post_error,
                   send_error, reported, exit_status, interrupts,
                   late_interrupt, screen_key, max_json_input,
                   roblox_username, MAX_PIXELS, main_index, capture_index,
                   capture_error, call>>

\* mutant of ProducerPutFull: put() without a timeout, a full queue blocks
ProducerPutFull_Blocks ==
    /\ ppc = "put"
    /\ Len(frame_queue) >= MaxSize
    /\ FALSE
    /\ UNCHANGED vars

\* mutant of ProducerPutFull: queue.Full is handled as an error, the flag is set
ProducerPutFull_SetsFlag ==
    /\ ppc = "put"
    /\ Len(frame_queue) >= MaxSize
    /\ dropped' = dropped \cup {frame_payload}
    /\ frame_payload' = 0
    /\ ppc' = "sleep"
    /\ stop_event' = TRUE
    /\ UNCHANGED <<mainpc, cpc, monitor_num, created, frame_queue,
                   built, c_payload, got, puts, posts, post_error, send_error,
                   reported, exit_status, interrupts, late_interrupt,
                   screen_key, max_json_input, roblox_username, MAX_PIXELS,
                   main_index, capture_index, capture_error, enq_after_stop,
                   call>>

\* lines 108-110: the put times out on a full queue: queue.Full, pass
ProducerPutFull ==
    /\ ppc = "put"
    /\ Len(frame_queue) >= MaxSize
    /\ dropped' = dropped \cup {frame_payload}
    /\ frame_payload' = 0
    /\ ppc' = "sleep"
    /\ UNCHANGED <<mainpc, cpc, monitor_num, created, frame_queue, stop_event,
                   built, c_payload, got, puts, posts, post_error, send_error,
                   reported, exit_status, interrupts, late_interrupt,
                   screen_key, max_json_input, roblox_username, MAX_PIXELS,
                   main_index, capture_index, capture_error, enq_after_stop,
                   call>>

\* mutant of ProducerSleep: the loop tests the flag only on entry (while True)
ProducerSleep_SkipsCheck ==
    /\ ppc = "sleep"
    /\ built < MaxFrames
    /\ ppc' = "grab"
    /\ UNCHANGED <<mainpc, cpc, monitor_num, created, frame_queue, stop_event,
                   built, frame_payload, c_payload, got, puts, dropped, posts,
                   post_error, send_error, reported, exit_status, interrupts,
                   late_interrupt, screen_key, max_json_input,
                   roblox_username, MAX_PIXELS, main_index, capture_index,
                   capture_error, enq_after_stop, call>>

\* line 113: time.sleep(delay)
ProducerSleep ==
    /\ ppc = "sleep"
    /\ ppc' = "check"
    /\ UNCHANGED <<mainpc, cpc, monitor_num, created, frame_queue, stop_event,
                   built, frame_payload, c_payload, got, puts, dropped, posts,
                   post_error, send_error, reported, exit_status, interrupts,
                   late_interrupt, screen_key, max_json_input,
                   roblox_username, MAX_PIXELS, main_index, capture_index,
                   capture_error, enq_after_stop, call>>

Producer ==
    \/ ProducerInit
    \/ ProducerCheck
    \/ ProducerGrab
    \/ ProducerGrabError
    \/ ProducerPut
    \/ ProducerPutFull
    \/ ProducerSleep

----------------------------------------------------------------------------
(* The send thread: send_frames() *)

\* line 122: while not stop_event.is_set()
ConsumerCheck ==
    /\ cpc = "check"
    /\ cpc' = IF stop_event THEN "done" ELSE "get"
    /\ UNCHANGED <<mainpc, ppc, monitor_num, created, frame_queue, stop_event,
                   built, frame_payload, c_payload, got, puts, dropped, posts,
                   post_error, send_error, reported, exit_status, interrupts,
                   late_interrupt, screen_key, max_json_input,
                   roblox_username, MAX_PIXELS, main_index, capture_index,
                   capture_error, enq_after_stop, call>>

\* mutant of ConsumerGet: a LIFO queue, get returns the newest frame
ConsumerGet_Lifo ==
    /\ cpc = "get"
    /\ frame_queue # <<>>
    /\ c_payload' = frame_queue[Len(frame_queue)]
    /\ frame_queue' = SubSeq(frame_queue, 1, Len(frame_queue) - 1)
    /\ got' = Append(got, frame_queue[Len(frame_queue)])
    /\ cpc' = "send"
    /\ UNCHANGED <<mainpc, ppc, monitor_num, created, stop_event, built,
                   frame_payload, puts, dropped, posts, post_error,
                   send_error, reported, exit_status, interrupts,
                   late_interrupt, screen_key, max_json_input,
                   roblox_username, MAX_PIXELS, main_index, capture_index,
                   capture_error, enq_after_stop, call>>

\* lines 123-125: frame_queue.get(timeout=1) returns the oldest frame
ConsumerGet ==
    /\ cpc = "get"
    /\ frame_queue # <<>>
    /\ c_payload' = Head(frame_queue)
    /\ frame_queue' = Tail(frame_queue)
    /\ got' = Append(got, Head(frame_queue))
    /\ cpc' = "send"
    /\ UNCHANGED <<mainpc, ppc, monitor_num, created, stop_event, built,
                   frame_payload, puts, dropped, posts, post_error,
                   send_error, reported, exit_status, interrupts,
                   late_interrupt, screen_key, max_json_input,
                   roblox_username, MAX_PIXELS, main_index, capture_index,
                   capture_error, enq_after_stop, call>>

\* lines 126-127: the get times out on an empty queue: queue.Empty, continue
ConsumerGetEmpty ==
    /\ cpc = "get"
    /\ frame_queue = <<>>
    /\ cpc' = "check"
    /\ UNCHANGED <<mainpc, ppc, monitor_num, created, frame_queue, stop_event,
                   built, frame_payload, c_payload, got, puts, dropped, posts,
                   post_error, send_error, reported, exit_status, interrupts,
                   late_interrupt, screen_key, max_json_input,
                   roblox_username, MAX_PIXELS, main_index, capture_index,
                   capture_error, enq_after_stop, call>>

\* line 130: send_request(put_url, frame_payload, "PUT", headers) is called:
\* the PUT of the frame goes out
ConsumerSend ==
    /\ cpc = "send"
    /\ puts' = Append(puts, c_payload)
    /\ cpc' = "resp"
    /\ UNCHANGED <<mainpc, ppc, monitor_num, created, frame_queue, stop_event,
                   built, frame_payload, c_payload, got, dropped, posts,
                   post_error, send_error, reported, exit_status, interrupts,
                   late_interrupt, screen_key, max_json_input,
                   roblox_username, MAX_PIXELS, main_index, capture_index,
                   capture_error, enq_after_stop, call>>

\* mutant of ConsumerSendOk: a successful send clears the flag
ConsumerSendOk_Clears ==
    /\ cpc = "resp"
    /\ \E r \in Responses : send_request("PUT", r) = NoError
    /\ c_payload' = 0
    /\ stop_event' = FALSE
    /\ cpc' = "check"
    /\ UNCHANGED <<mainpc, ppc, monitor_num, created, frame_queue, built,
                   frame_payload, got, puts, dropped, posts, post_error,
                   send_error, reported, exit_status, interrupts,
                   late_interrupt, screen_key, max_json_input,
                   roblox_username, MAX_PIXELS, main_index, capture_index,
                   capture_error, enq_after_stop, call>>

\* lines 130-131, 135-136: send_request returns; task_done()
ConsumerSendOk ==
    /\ cpc = "resp"
    /\ \E r \in Responses : send_request("PUT", r) = NoError
    /\ c_payload' = 0
    /\ cpc' = "check"
    /\ UNCHANGED <<mainpc, ppc, monitor_num, created, frame_queue, stop_event,
                   built, frame_payload, got, puts, dropped, posts,
                   post_error, send_error, reported, exit_status, interrupts,
                   late_interrupt, screen_key, max_json_input,
                   roblox_username, MAX_PIXELS, main_index, capture_index,
                   capture_error, enq_after_stop, call>>

\* mutant of ConsumerSendFail: the handler prints and the loop goes on
ConsumerSendFail_GoesOn ==
    /\ cpc = "resp"
    /\ \E r \in Responses :
         /\ send_request("PUT", r) # NoError
         /\ send_error' = send_request("PUT", r)
    /\ c_payload' = 0
    /\ cpc' = "check"
    /\ UNCHANGED <<mainpc, ppc, monitor_num, created, frame_queue, stop_event,
                   built, frame_payload, got, puts, dropped, posts,
                   post_error, reported, exit_status, interrupts,
                   late_interrupt, screen_key, max_json_input,
                   roblox_username, MAX_PIXELS, main_index, capture_index,
                   capture_error, enq_after_stop, call>>

\* lines 132-136: send_request raises: print, stop_event.set(); task_done()
ConsumerSendFail ==
    /\ cpc = "resp"
    /\ \E r \in Responses :
         /\ send_request("PUT", r) # NoError
         /\ send_error' = send_request("PUT", r)
    /\ stop_event' = TRUE
    /\ c_payload' = 0
    /\ cpc' = "check"
    /\ UNCHANGED <<mainpc, ppc, monitor_num, created, frame_queue, built,
                   frame_payload, got, puts, dropped, posts, post_error,
                   reported, exit_status, interrupts, late_interrupt,
                   screen_key, max_json_input, roblox_username, MAX_PIXELS,
                   main_index, capture_index, capture_error, enq_after_stop,
                   call>>

Consumer ==
    \/ ConsumerCheck
    \/ ConsumerGet
    \/ ConsumerGetEmpty
    \/ ConsumerSend
    \/ ConsumerSendOk
    \/ ConsumerSendFail

----------------------------------------------------------------------------
(* Specifications *)

Next == Main \/ Producer \/ Consumer \/ Interrupt

Spec == Init /\ [][Next]_vars

\* The three threads are scheduled by the operating system and every blocking
\* call of theirs returns (timeouts of 1 s and 5 s, a sleep of 50 ms or 1 s);
\* an interrupt is the user's choice and carries no fairness.
FairSpec ==
    Spec /\ WF_vars(Main) /\ WF_vars(Producer) /\ WF_vars(Consumer)

----------------------------------------------------------------------------
(* The pure functions, each called once, alone, on inputs drawn from        *)
(* bounded sets                                                            *)

\* the pipeline's variables, which a call of a pure function leaves alone
pipeline == <<mainpc, ppc, cpc, monitor_num, created, frame_queue, stop_event,
              built, frame_payload, c_payload, got, puts, dropped, posts,
              post_error, send_error, reported, exit_status, interrupts,
              late_interrupt, screen_key, max_json_input, roblox_username,
              MAX_PIXELS, main_index, capture_index, capture_error,
              enq_after_stop>>

\* send_request (ScreenshareV3.py) is called with a method and meets a
\* response; `issued` is the call made on the session
CallSendRequest ==
    /\ call.op = "none"
    /\ \E m \in Methods, r \in UnitResponses :
         call' = [op |-> "send_request", method |-> m, resp |-> r,
                  issued |-> session_call(m), raised |-> send_request(m, r)]
    /\ UNCHANGED pipeline

\* send_request (Screenshare.py) is called the same way
CallSendRequestV1 ==
    /\ call.op = "none"
    /\ \E m \in Methods, r \in UnitResponses :
         call' = [op |-> "send_request_v1", method |-> m, resp |-> r,
                  issued |-> session_call(m),
                  raised |-> send_request_v1(m, r)]
    /\ UNCHANGED pipeline

\* lines 93-99: the scaling step on a width x height image
CallScale ==
    /\ call.op = "none"
    /\ \E w \in 1..MaxDim, h \in 1..MaxDim, b \in 0..MaxBudget :
         call' = [op |-> "scale", width |-> w, height |-> h,
                  max_pixels |-> b, size |-> resize_dims(w, h, b)]
    /\ UNCHANGED pipeline

\* lines 25-35: capture_screen_to_json on a width x height RGBA image
CallCaptureScreenToJson ==
    /\ call.op = "none"
    /\ \E w \in 1..MaxRasterPixels, h \in 1..MaxRasterPixels :
         /\ w * h <= MaxRasterPixels
         /\ \E img \in [1..(w * h) -> Pixels] :
              call' = [op |-> "capture_screen_to_json",
                       width |-> w, height |-> h, img |-> img,
                       arr |-> normalize_alpha(img),
                       bytes |-> tobytes(normalize_alpha(img))]
    /\ UNCHANGED pipeline

InitPure ==
    /\ Init
    /\ screen_key = <<"k">>
    /\ max_json_input = <<"1", "2">>
    /\ roblox_username = <<"u">>
    /\ monitor_num = 1

NextPure ==
    \/ CallSendRequest
    \/ CallSendRequestV1
    \/ CallScale
    \/ CallCaptureScreenToJson

PureSpec == InitPure /\ [][NextPure]_vars

----------------------------------------------------------------------------
(* Claims *)

\* frames are numbered in capture order, so a sequence of frames is in
\* capture order without repetition exactly when it is strictly increasing
InCaptureOrder(s) ==
    /\ \A i \in 1..Len(s) : s[i] \in 1..built
    /\ \A i, j \in 1..Len(s) : i < j => s[i] < s[j]

\* C1: the frames passed to PUT are, in order, a subsequence of the frames
\* capture_frames built: never out of capture order, never one twice.
C1_SentInCaptureOrder == InCaptureOrder(puts)

\* C1 witness: frames on both sides of a dropped frame were sent
C1_Witness ==
    \E d \in dropped : \E i, j \in 1..Len(puts) : puts[i] < d /\ d < puts[j]

\* C2: the frame queue never holds fewer than 0 or more than 10 frames.
C2_QueueBounded == Len(frame_queue) >= 0 /\ Len(frame_queue) <= MaxSize

\* C2 witness: an enqueue attempt meets a queue of 10 frames while the send
\* thread is dequeuing
C2_Witness == Len(frame_queue) = MaxSize /\ ppc = "put" /\ cpc = "get"

\* the frames that entered the queue, in order: every frame built so far
\* except the dropped ones and the one capture_frames still holds
Enqueued ==
    SelectSeq([i \in 1..built |-> i],
              LAMBDA f : f \notin dropped /\ f # frame_payload)

\* an enqueue attempt is meeting a full queue
PutOnFull == ppc = "put" /\ Len(frame_queue) = MaxSize

\* C3: an enqueue attempt on a queue of 10 frames always ends, whether or not
\* the send thread dequeues; when it ends by the timeout the frame is
\* discarded, queue and flag stay as they are and the capture thread goes to
\* its sleep; the frames the send thread dequeues are then exactly the
\* pending ones, in their order, and never the discarded one.
C3_Backpressure ==
    /\ [](PutOnFull => ENABLED ProducerPutFull)
    /\ (PutOnFull ~> ppc # "put")
    /\ [][(PutOnFull /\ ppc' \notin {"put", "killed"}) =>
            /\ ppc' = "sleep"
            /\ frame_queue' = frame_queue
            /\ stop_event' = stop_event
            /\ dropped' = dropped \cup {frame_payload}]_vars
    /\ [](got \o frame_queue = Enqueued)
    /\ [](dropped \cap (Range(got) \cup Range(frame_queue)) = {})

\* C3 witness: the 11th frame was dropped on a queue holding frames 1..10 and
\* the send thread then dequeued exactly those ten, in order
C3_Witness ==
    /\ (MaxSize + 1) \in dropped
    /\ Len(got) >= MaxSize
    /\ SubSeq(got, 1, MaxSize) = [i \in 1..MaxSize |-> i]
    /\ ppc \in {"sleep", "check", "grab", "put"}

\* C4: once a PUT has failed the flag is set, the send thread is at its loop
\* test or has stopped, and from then on it dequeues nothing and issues no
\* PUT, neither of the failed frame nor of any other.
C4_FailStop ==
    /\ [](send_error # NoError =>
            /\ stop_event
            /\ cpc \in {"check", "done", "killed"}
            /\ c_payload = 0)
    /\ [][send_error # NoError => puts' = puts /\ got' = got]_vars

\* C4 witness: a PUT failed with frames still queued and another one enqueued
\* afterwards; the send thread has stopped
C4_Witness ==
    /\ send_error # NoError
    /\ cpc = "done"
    /\ Len(puts) >= 2
    /\ Len(frame_queue) >= 2
    /\ ppc = "done"

\* C5: after a failed bootstrap POST the process has ended with status 1 and
\* that exception printed; no thread was started, queue and event were never
\* created, no frame was built, enqueued or PUT.
C5_BootstrapFailureAborts ==
    post_error # NoError =>
        /\ mainpc = "exited"
        /\ exit_status = "1"
        /\ reported = post_error
        /\ ppc = "idle" /\ cpc = "idle"
        /\ ~created
        /\ frame_queue = <<>> /\ built = 0 /\ got = <<>> /\ puts = <<>>

\* C5 witness: the POST was answered with status 500
C5_Witness == post_error = <<"HTTPError", 500>> /\ mainpc = "exited"

\* C6: the flag starts unset and no step takes it from set to unset.
C6_FlagMonotonic == (~stop_event) /\ [][stop_event => stop_event']_vars

\* C6 witness: the flag was set by the send thread's handler and by the
\* controller's interrupt handler, in either order, and is set
C6_Witness ==
    /\ stop_event
    /\ send_error # NoError
    /\ interrupts > 0
    /\ mainpc \in {"join_capture", "join_send", "exit"}

\* the controller returned from main() by line 238, past both joins
Returned == mainpc = "exited" /\ exit_status = "0"

\* C8: with no interrupt, once both threads have been started the process
\* ends only with the flag set and both threads ended.
C8_ReturnsOnlyAfterStop ==
    (interrupts = 0 /\ mainpc = "exited" /\ cpc # "idle") =>
        /\ stop_event
        /\ Finished(ppc)
        /\ Finished(cpc)

\* C8 witness: a run without interrupt has ended after the threads ran
C8_Witness ==
    /\ interrupts = 0
    /\ Returned
    /\ cpc = "done"
    /\ Len(puts) >= 1

\* C7: once the flag is set with both threads started, the capture thread
\* ends, the send thread ends, and the controller gets past both joins and
\* returns by line 238.
C7_ShutdownCompletes ==
    (Started /\ stop_event) ~> (Returned /\ Finished(ppc) /\ Finished(cpc))

\* C7, the part the code keeps: shutdown completes unless an interrupt ends
\* the process first (compare C9)
C7_UnlessInterrupted ==
    (Started /\ stop_event) ~>
        \/ Returned /\ Finished(ppc) /\ Finished(cpc)
        \/ exit_status = "KeyboardInterrupt"

\* C9: a process that ended after an interrupt arrived with both threads
\* started has the flag set, both threads ended on their own and both joins
\* passed; no thread was killed at shutdown.
C9_InterruptGraceful ==
    (late_interrupt /\ mainpc = "exited") =>
        /\ stop_event
        /\ Finished(ppc) /\ Finished(cpc)
        /\ Returned

\* C10: a session that ended, uninterrupted, after a PUT failed ends with
\* that exception reported by the controller and not with the status of a
\* clean stop.
C10_ReportsSendError ==
    (mainpc = "exited" /\ interrupts = 0 /\ send_error # NoError) =>
        /\ reported = send_error
        /\ exit_status # "0"

\* the last call was send_request of ScreenshareV3.py with POST or PUT
SentRequest == call.op = "send_request" /\ call.issued # "none"

\* a response with a status in [200, 300)
Is2xx(r) == r[1] = "Status" /\ 200 <= r[2] /\ r[2] < 300

\* C11: send_request returns normally exactly for a status in [200, 300);
\* any other status raises the HTTP error of that status, a transport
\* failure raises that transport error.
C11_SuccessIffStatus2xx ==
    SentRequest =>
        /\ (call.raised = NoError) <=> Is2xx(call.resp)
        /\ (call.resp[1] = "Status" /\ ~Is2xx(call.resp)) =>
               call.raised = <<"HTTPError", call.resp[2]>>
        /\ call.resp[1] \in Transport => call.raised = call.resp

\* C12: with a method other than POST or PUT send_request raises the
\* unsupported-method ValueError and makes no call on the session.
C12_UnsupportedMethod ==
    (call.op = "send_request" /\ upper(call.method) \notin {"POST", "PUT"}) =>
        /\ call.raised = <<"ValueError", 0>>
        /\ call.issued = "none"

\* C12 witness: send_request was called with GET
C12_Witness == call.op = "send_request" /\ call.method = "GET"

\* C15: whenever the image has more pixels than the budget, the scaled size
\* has at most budget pixels and both dimensions are at least 1 (stated here
\* for the budgets of at least 1, for which such a size exists).
C15_ScaledFitsBudget ==
    (/\ call.op = "scale"
     /\ call.max_pixels >= 1
     /\ call.width * call.height > call.max_pixels) =>
        /\ call.size[1] * call.size[2] <= call.max_pixels
        /\ call.size[1] >= 1
        /\ call.size[2] >= 1

\* C16: capture_screen_to_json turns every pixel of alpha 0 into
\* (0, 0, 0, 255), leaves every other pixel as it is, keeps number and order
\* of the pixels, and encodes a buffer of width * height * 4 bytes, the
\* channels of the pixels in order.
C16_AlphaNormalized ==
    call.op = "capture_screen_to_json" =>
        /\ Len(call.arr) = call.width * call.height
        /\ \A i \in 1..Len(call.img) :
             /\ call.img[i][4] = 0 => call.arr[i] = <<0, 0, 0, 255>>
             /\ call.img[i][4] > 0 => call.arr[i] = call.img[i]
        /\ Len(call.bytes) = call.width * call.height * 4
        /\ \A i \in 1..Len(call.arr) : \A c \in 1..4 :
             call.bytes[4 * (i - 1) + c] = call.arr[i][c]

\* C16 witness: an image with a coloured transparent pixel and a pixel of
\* alpha 1 was encoded
C16_Witness ==
    /\ call.op = "capture_screen_to_json"
    /\ Len(call.img) = 2
    /\ call.img[1] = <<200, 0, 200, 0>>
    /\ call.img[2] = <<200, 200, 0, 1>>

\* C13: a monitor index that is none of the displays 1..N is rejected by the
\* index check before any capture: main() ends with status 1 by its own
\* sys.exit, with no other exception and no request; the capture thread
\* sets the flag and returns, with no exception and no frame built.
C13_InvalidIndexRejected ==
    /\ main_index = "no display" =>
         /\ mainpc = "exited" /\ exit_status = "1"
         /\ reported = NoError
         /\ posts = 0 /\ ppc = "idle" /\ cpc = "idle"
    /\ capture_index = "no display" =>
         /\ stop_event
         /\ ppc = "done"
         /\ capture_error = NoError
         /\ built = 0

\* the configuration the inputs give is not valid: empty key, empty user
\* name, or a byte budget that is no positive integer
InvalidConfig ==
    \/ Strip(screen_key) = <<>>
    \/ Strip(roblox_username) = <<>>
    \/ ~isdigit(Strip(max_json_input))
    \/ int(Strip(max_json_input)) <= 0

\* C14: with an invalid configuration main() never gets past reading its
\* inputs: it ends there, before any screenshot, request or thread.
C14_InvalidConfigRejected ==
    InvalidConfig =>
        \/ mainpc = "input"
        \/ /\ mainpc = "exited"
           /\ exit_status \in {"1", "KeyboardInterrupt"}
           /\ main_index = "unchecked"
           /\ posts = 0
           /\ ppc = "idle" /\ cpc = "idle"

\* the threads or their queue exist, or a frame was PUT
PastBootstrap == created \/ ppc # "idle" \/ cpc # "idle" \/ puts # <<>>

\* C17 as stated: every run issues exactly one bootstrap POST, never a
\* second one, and threads and PUTs only come after that POST succeeded.
C17_ExactlyOnePost ==
    /\ mainpc = "exited" => posts = 1
    /\ posts <= 1
    /\ PastBootstrap => (posts = 1 /\ post_error = NoError)

\* C17 amended: at most one bootstrap POST is issued, exactly one in every
\* uninterrupted run that took its initial screenshot; threads and PUTs
\* only come after that POST succeeded.
C17_PostBeforePuts ==
    /\ posts <= 1
    /\ PastBootstrap => (posts = 1 /\ post_error = NoError)
    /\ (mainpc = "exited" /\ interrupts = 0 /\ main_index = "display") =>
           posts = 1

\* C17 witness: two frames were PUT after the one POST
C17_Witness == Len(puts) >= 2 /\ posts = 1 /\ post_error = NoError

\* C18: the step that drops a frame leaves flag, queue and every error as
\* they are, the capture thread goes on to its sleep and the process keeps
\* running; a dropped frame is never passed to PUT.
C18_DropIsNoError ==
    /\ [][dropped' # dropped =>
            /\ stop_event' = stop_event
            /\ frame_queue' = frame_queue
            /\ send_error' = send_error /\ capture_error' = capture_error
            /\ ppc' = "sleep"
            /\ exit_status' = exit_status /\ exit_status = NotExited]_vars
    /\ [](dropped \cap Range(puts) = {})

\* C18 witness: a frame was dropped, a later frame was PUT, and the session
\* is still running with the flag unset
C18_Witness ==
    /\ \E d \in dropped : \E i \in 1..Len(puts) : puts[i] > d
    /\ ~stop_event
    /\ exit_status = NotExited

\* C19: the capture thread enqueues at most one frame while the flag is
\* set, and once it is at its loop test with the flag set it goes nowhere
\* but out of the loop.
C19_StopsWithinOneIteration ==
    /\ [](enq_after_stop <= 1)
    /\ [][(stop_event /\ ppc \in {"check", "done"}) =>
            ppc' \in {"check", "done", "killed"}]_vars

\* C19 witness: the flag was set in mid-iteration, the frame of that
\* iteration was enqueued and the capture thread has returned
C19_Witness == enq_after_stop = 1 /\ ppc = "done" /\ built >= 2

\* C20: whenever the capture loop or the send loop has ended, by a return
\* or by an exception, the flag is set.
C20_EndsThroughFlag == (Finished(ppc) \/ Finished(cpc)) => stop_event

\* frame f is waiting in the queue or is in the send thread's hands
Pending(f) == f \in Range(frame_queue) \/ (cpc = "send" /\ c_payload = f)

\* frame f was passed to PUT exactly once
SentOnce(f) == Cardinality({i \in 1..Len(puts) : puts[i] = f}) = 1

\* the run has left the case of C21: the flag is set or a PUT has failed
\* (the flag, once set, stays set, so a run in which this ever holds is not
\* a run where the flag is never set)
Cancelled == stop_event \/ send_error # NoError

\* C21: in a run where the flag is never set and every PUT succeeds, every
\* frame that entered the queue is eventually sent in exactly one PUT, no
\* frame is ever PUT twice, and a get that times out on the empty queue
\* changes nothing and takes the send thread back to its loop test.
C21_EnqueuedEventuallySent ==
    /\ \A f \in 1..MaxFrames : Pending(f) ~> (SentOnce(f) \/ Cancelled)
    /\ [](\A f \in Range(puts) : SentOnce(f))
    /\ [][(cpc = "get" /\ frame_queue = <<>> /\ cpc' \notin {"get", "killed"})
            => /\ cpc' = "check"
               /\ puts' = puts /\ got' = got
               /\ frame_queue' = frame_queue
               /\ stop_event' = stop_event]_vars

\* C21, the part the code keeps: every enqueued frame is sent unless the
\* flag is set, a PUT fails, or an interrupt ends the process (compare C9)
C21_UnlessInterrupted ==
    /\ \A f \in 1..MaxFrames :
         Pending(f) ~>
             (SentOnce(f) \/ Cancelled \/ exit_status = "KeyboardInterrupt")
    /\ [](\A f \in Range(puts) : SentOnce(f))

\* frames were enqueued, dropped and sent, the queue is drained, and the
\* session is still running with the flag unset
C21_Drained ==
    /\ Len(puts) >= MaxSize
    /\ dropped # {}
    /\ frame_queue = <<>> /\ cpc \in {"check", "get"}
    /\ Range(puts) = Range(Enqueued)
    /\ ~Cancelled /\ exit_status = NotExited

====
